---- MODULE Spec2Model ----
(***************************************************************************)
(* Ledger (balance read / modify / conditional write with retry) and      *)
(* order workflow (create -> settle) of culda/gotest, in its two          *)
(* implementations:                                                        *)
(*   "sample"  src/sample/cmd/sample/main.go  two-delta UpdateBalance with *)
(*             a negative-balance check and a conditional write;           *)
(*             Settle(orderID) only flips the status.                      *)
(*   "cmd"     src/cmd/main.go  single-amount UpdateBalance, no check, an  *)
(*             unconditional write; Settle(userID, orderID) also calls     *)
(*             UpdateBalance(userID, -order.Amount).                       *)
(* The store (DynamoDB tables Balances and Orders) is the only shared      *)
(* state.  Every store call (GetItem, PutItem, UpdateItem) is one atomic   *)
(* step and may fail (the call then returns its error and the write, if   *)
(* any, is not applied); the code between two store calls is local to the  *)
(* caller and belongs to the step of a neighbouring store call.  Each      *)
(* caller invokes one operation; calls in sequence are calls of different  *)
(* callers, one after the other has returned.                              *)
(*                                                                         *)
(* Amounts are float64 in the code.  They are modelled as integers in     *)
(* units of 1/Resolution of 10^-6, the last decimal that                   *)
(* fmt.Sprintf("%f", x) keeps: Fmt rounds to a multiple of Resolution.     *)
(* Sums are exact in the model (float64 rounding of the sum itself is not  *)
(* modelled).                                                              *)
(***************************************************************************)
EXTENDS Integers, FiniteSets, TLC

\* ------------------------------------------------------------------ bounds
\* model units per 0.000001 (the sixth decimal, the last one "%f" writes)
Resolution == 4
\* number of concurrent callers; each invokes one operation
NumCallers == 2

Callers == 1..NumCallers
Impls == {"sample", "cmd"}
Users == {"u1", "u2"}
OrderIDs == {"o1"}

\* 0.000001 in model units
Micro == Resolution
\* an amount below the sixth decimal (0.00000025 when Resolution = 4)
SubMicro == 1

\* the (userID, availableChange, totalChange) callers pass to the two-delta form
AdjustArgs ==
  { <<"u1", Micro, Micro>>, <<"u1", -Micro, -Micro>>, <<"u1", 0, -2 * Micro>>,
    <<"u1", 0, 0>>, <<"u1", SubMicro, SubMicro>>, <<"u2", -Micro, -Micro>> }
\* the (userID, amount) callers pass to the single-amount form
AdjustArgsCmd ==
  { <<"u1", Micro>>, <<"u1", -Micro>>, <<"u1", -2 * Micro>>, <<"u1", SubMicro>>,
    <<"u2", -Micro>> }
\* the (userID, orderID, amount) callers pass to CreateSellOrder
OrderArgs ==
  { <<"u1", "o1", -Micro>>, <<"u1", "o1", 0>>, <<"u1", "o1", SubMicro>>,
    <<"u1", "o1", Micro>>, <<"u1", "o1", 2 * Micro>>, <<"u2", "o1", Micro>> }

NoBalance == [available |-> -1, total |-> -1, present |-> FALSE]
NoOrder == [user_id |-> "", amount |-> 0, status |-> "", present |-> FALSE]

Bal(a, t) == [available |-> a, total |-> t, present |-> TRUE]

\* the Balances tables provisioned before the callers run (no operation of the
\* program creates a Balance): u1 has a record, whose available may have more
\* than six decimals (0.00000125 when Resolution = 4); u2 may have none
ProvisionedBalances ==
  { [u \in Users |-> IF u = "u1" THEN b1 ELSE b2] :
      b1 \in {Bal(Micro, 2 * Micro), Bal(Micro + SubMicro, 2 * Micro)},
      b2 \in {NoBalance, Bal(Micro, Micro)} }

\* the Orders tables the callers may find: empty, or o1 left Pending by an
\* earlier CreateSellOrder("u1", "o1", 0.000001)
ProvisionedOrders ==
  { [o \in OrderIDs |-> NoOrder],
    [o \in OrderIDs |->
       [user_id |-> "u1", amount |-> Micro, status |-> "Pending", present |-> TRUE]] }

NoCall == [op |-> "none", user |-> "", order |-> "", dA |-> 0, dT |-> 0]

VARIABLES
  impl,      \* which implementation the callers run
  balances,  \* table Balances: user_id -> record
  orders,    \* table Orders: order_id -> record
  pc,        \* per caller: position in its operation
  call,      \* per caller: the operation it invoked and the arguments of its UpdateBalance
  cur,       \* per caller: the Balance returned by FetchBalance in this round
  ordAmt,    \* per caller: order.Amount read by Settle
  result,    \* per caller: what its operation returned
  initial,   \* history: the Balances table at the start
  applied,   \* history: per user, the summed deltas of UpdateBalance calls that returned nil
  quiet      \* history: per caller, no other caller has taken a step since its operation began

vars == <<impl, balances, orders, pc, call, cur, ordAmt, result, initial, applied, quiet>>

\* ------------------------------------------------------------------ pure code

\* fmt.Sprintf("%f", x): six decimals, rounded to nearest
Fmt(x) ==
  LET r == x % Resolution
  IN  IF 2 * r < Resolution THEN x - r ELSE x - r + Resolution

\* sample: newAvailable, newTotal
NewBalance(b, dA, dT) == [available |-> b.available + dA, total |-> b.total + dT]

\* mutant of IsNegative: only the available field is checked
IsNegativeAvailableOnly(nb) == nb.available < 0

\* sample: if newAvailable < 0 || newTotal < 0
IsNegative(nb) == nb.available < 0 \/ nb.total < 0

\* mutant of ConditionHolds: the condition names the available field only
ConditionHoldsAvailableOnly(stored, b) ==
  /\ stored.present
  /\ stored.available = Fmt(b.available)

\* sample: ConditionExpression "available = :currentAvailable AND total = :currentTotal"
ConditionHolds(stored, b) ==
  /\ stored.present
  /\ stored.available = Fmt(b.available)
  /\ stored.total = Fmt(b.total)

\* UpdateExpression "set available = :newAvailable, total = :newTotal"
SetBalance(nb) == Bal(Fmt(nb.available), Fmt(nb.total))

\* cmd: newAvailable := balance.Available + amount; newTotal := balance.Total + amount
NewBalanceCmd(b, amount) == [available |-> b.available + amount, total |-> b.total + amount]

\* mutant of CheckSample: the check is made on the Balance read, not on the new values
CheckSampleOldValues(b, dA, dT) ==
  IF IsNegative(b) THEN "NegativeBalance" ELSE "write"

\* sample, after FetchBalance returned b: return the error, or go on to UpdateItem
CheckSample(b, dA, dT) ==
  IF IsNegative(NewBalance(b, dA, dT)) THEN "NegativeBalance" ELSE "write"

\* cmd, after FetchBalance returned b: always on to UpdateItem
CheckCmd(b, amount) == "write"

\* mutant of WriteSample: a failed condition is taken for success
WriteSampleConflictAsSuccess(stored, b, dA, dT) ==
  IF ConditionHolds(stored, b)
  THEN [ret |-> "ok", balance |-> SetBalance(NewBalance(b, dA, dT))]
  ELSE [ret |-> "ok", balance |-> stored]

\* sample, UpdateItem with the store holding `stored` and the round having read b:
\* what the round ends in and the record the store holds afterwards
WriteSample(stored, b, dA, dT) ==
  IF ConditionHolds(stored, b)
  THEN [ret |-> "ok", balance |-> SetBalance(NewBalance(b, dA, dT))]
  ELSE [ret |-> "retry", balance |-> stored]

\* cmd, UpdateItem with the store holding `stored` and the round having read b
WriteCmd(stored, b, amount) ==
  [ret |-> "ok", balance |-> SetBalance(NewBalanceCmd(b, amount))]

\* mutant of InvalidAmount: 0 is accepted
InvalidAmountNegativeOnly(amount) == amount < 0

\* CreateSellOrder: if amount <= 0
InvalidAmount(amount) == amount <= 0

\* mutant of NewOrder: the order is stored as already settled
NewOrderSettled(userID, amount) ==
  [user_id |-> userID, amount |-> amount, status |-> "Settled", present |-> TRUE]

\* CreateSellOrder: the Order it puts
NewOrder(userID, amount) ==
  [user_id |-> userID, amount |-> amount, status |-> "Pending", present |-> TRUE]

\* mutant of IsSettled: the status is compared with another spelling
IsSettledLowerCase(o) == o.status = "settled"

\* Settle: if order.Status == "Settled"
IsSettled(o) == o.status = "Settled"

\* Settle: UpdateExpression "set status = :newStatus" with "Settled"
SetSettled(o) == [o EXCEPT !.status = "Settled", !.present = TRUE]

\* ------------------------------------------------------------------ helpers

\* caller p's operation c returns r; its locals go out of scope
Return(p, c, r) ==
  /\ pc' = [pc EXCEPT ![p] = "done"]
  /\ result' = [result EXCEPT ![p] = r]
  /\ call' = [call EXCEPT ![p] = c]
  /\ cur' = [cur EXCEPT ![p] = NoBalance]
  /\ ordAmt' = [ordAmt EXCEPT ![p] = 0]
  /\ quiet' = [q \in Callers |-> FALSE]

\* caller p, running operation c, goes on to its next store call; first: this
\* step is the first of the operation
Goto(p, c, at, first) ==
  /\ pc' = [pc EXCEPT ![p] = at]
  /\ call' = [call EXCEPT ![p] = c]
  /\ quiet' = [q \in Callers |-> q = p /\ (first \/ quiet[p])]
  /\ UNCHANGED result

\* ------------------------------------------------------------------ state

Init ==
  /\ impl \in Impls
  /\ balances \in ProvisionedBalances
  /\ orders \in ProvisionedOrders
  /\ pc = [p \in Callers |-> "idle"]
  /\ call = [p \in Callers |-> NoCall]
  /\ cur = [p \in Callers |-> NoBalance]
  /\ ordAmt = [p \in Callers |-> 0]
  /\ result = [p \in Callers |-> "none"]
  /\ initial = balances
  /\ applied = [u \in Users |-> [available |-> 0, total |-> 0]]
  /\ quiet = [p \in Callers |-> FALSE]

\* ------------------------------------------------------------------ UpdateBalance

\* mutant of FetchBalance: no check of result.Item == nil, a missing record is
\* decoded as the zero Balance
FetchBalanceNoItemCheck(userID) ==
  IF balances[userID].present
  THEN [err |-> "none", balance |-> balances[userID]]
  ELSE [err |-> "none", balance |-> Bal(0, 0)]

\* FetchBalance(svc, userID): the record, or which error
FetchBalance(userID) ==
  IF balances[userID].present
  THEN [err |-> "none", balance |-> balances[userID]]
  ELSE [err |-> "NotFound", balance |-> NoBalance]

\* sample, one round of the loop up to the UpdateItem call, for the call c:
\* FetchBalance, the new values, the negative check
ReadSample(p, c, first) ==
  LET f == FetchBalance(c.user)
  IN  /\ \/ Return(p, c, "StoreError")
         \/ /\ f.err # "none"
            /\ Return(p, c, f.err)
         \/ /\ f.err = "none"
            /\ CheckSample(f.balance, c.dA, c.dT) # "write"
            /\ Return(p, c, CheckSample(f.balance, c.dA, c.dT))
         \/ /\ f.err = "none"
            /\ CheckSample(f.balance, c.dA, c.dT) = "write"
            /\ cur' = [cur EXCEPT ![p] = f.balance]
            /\ Goto(p, c, "ub_write", first)
            /\ UNCHANGED ordAmt
      /\ UNCHANGED <<impl, balances, orders, initial, applied>>

\* cmd, up to the UpdateItem call: FetchBalance and the new values
ReadCmd(p, c, first) ==
  LET f == FetchBalance(c.user)
  IN  /\ \/ Return(p, c, "StoreError")
         \/ /\ f.err # "none"
            /\ Return(p, c, f.err)
         \/ /\ f.err = "none"
            /\ CheckCmd(f.balance, c.dA) = "write"
            /\ cur' = [cur EXCEPT ![p] = f.balance]
            /\ Goto(p, c, "ub_write", first)
            /\ UNCHANGED ordAmt
      /\ UNCHANGED <<impl, balances, orders, initial, applied>>

\* a caller invokes UpdateBalance(svc, userID, availableChange, totalChange):
\* its first round
AdjustSample(p) ==
  /\ impl = "sample"
  /\ pc[p] = "idle"
  /\ \E a \in AdjustArgs :
       ReadSample(p, [op |-> "Adjust", user |-> a[1], order |-> "", dA |-> a[2], dT |-> a[3]],
                  TRUE)

\* a caller invokes UpdateBalance(svc, userID, amount): up to its UpdateItem
AdjustCmd(p) ==
  /\ impl = "cmd"
  /\ pc[p] = "idle"
  /\ \E a \in AdjustArgsCmd :
       ReadCmd(p, [op |-> "Adjust", user |-> a[1], order |-> "", dA |-> a[2], dT |-> a[2]],
               TRUE)

\* sample: a round of UpdateBalance after a failed condition, or the first round
\* of the UpdateBalance that CreateSellOrder calls
UBReadSample(p) ==
  /\ impl = "sample"
  /\ pc[p] = "ub_read"
  /\ ReadSample(p, call[p], FALSE)

\* cmd: UpdateBalance called by CreateSellOrder or by Settle, up to its UpdateItem
UBReadCmd(p) ==
  /\ impl = "cmd"
  /\ pc[p] = "ub_read"
  /\ ReadCmd(p, call[p], FALSE)

\* sample, the conditional UpdateItem and what follows it: return nil, continue
\* on ConditionalCheckFailedException, return any other error
UBWriteSample(p) ==
  /\ impl = "sample"
  /\ pc[p] = "ub_write"
  /\ LET c == call[p]
         w == WriteSample(balances[c.user], cur[p], c.dA, c.dT)
     IN  \/ /\ Return(p, c, "StoreError")
            /\ UNCHANGED <<balances, applied>>
         \/ /\ w.ret = "ok"
            /\ balances' = [balances EXCEPT ![c.user] = w.balance]
            /\ applied' = [applied EXCEPT ![c.user] = NewBalance(@, c.dA, c.dT)]
            /\ Return(p, c, "ok")
         \/ /\ w.ret = "retry"
            /\ Goto(p, c, "ub_read", FALSE)
            /\ UNCHANGED <<balances, applied, cur, ordAmt>>
  /\ UNCHANGED <<impl, orders, initial>>

\* cmd, the UpdateItem (no ConditionExpression) and the return
UBWriteCmd(p) ==
  /\ impl = "cmd"
  /\ pc[p] = "ub_write"
  /\ LET c == call[p]
         w == WriteCmd(balances[c.user], cur[p], c.dA)
     IN  \/ /\ Return(p, c, "StoreError")
            /\ UNCHANGED <<balances, applied>>
         \/ /\ w.ret = "ok"
            /\ balances' = [balances EXCEPT ![c.user] = w.balance]
            /\ applied' = [applied EXCEPT ![c.user] = NewBalanceCmd(@, c.dA)]
            /\ Return(p, c, "ok")
  /\ UNCHANGED <<impl, orders, initial>>

\* ------------------------------------------------------------------ CreateSellOrder

\* a caller invokes CreateSellOrder(svc, userID, orderID, amount): the amount
\* check and the PutItem of the Order, then on to
\* UpdateBalance(svc, userID, -amount, -amount) (cmd: UpdateBalance(svc, userID, -amount))
CreateSellOrder(p) ==
  /\ pc[p] = "idle"
  /\ \E a \in OrderArgs :
       LET c == [op |-> "CreateSellOrder", user |-> a[1], order |-> a[2],
                 dA |-> -a[3], dT |-> -a[3]]
       IN  \/ /\ InvalidAmount(a[3])
              /\ Return(p, c, "InvalidAmount")
              /\ UNCHANGED orders
           \/ /\ ~InvalidAmount(a[3])
              /\ Return(p, c, "StoreError")
              /\ UNCHANGED orders
           \/ /\ ~InvalidAmount(a[3])
              /\ orders' = [orders EXCEPT ![a[2]] = NewOrder(a[1], a[3])]
              /\ Goto(p, c, "ub_read", TRUE)
              /\ UNCHANGED <<cur, ordAmt>>
  /\ UNCHANGED <<impl, balances, initial, applied>>

\* ------------------------------------------------------------------ Settle

\* a caller invokes Settle(svc, orderID) (sample) or Settle(svc, userID, orderID)
\* (cmd): GetItem of the Order, the missing-item check and the status check
Settle(p) ==
  /\ pc[p] = "idle"
  /\ \E u \in IF impl = "cmd" THEN Users ELSE {""}, oid \in OrderIDs :
       LET c == [op |-> "Settle", user |-> u, order |-> oid, dA |-> 0, dT |-> 0]
           o == orders[oid]
       IN  \/ Return(p, c, "StoreError")
           \/ /\ ~o.present
              /\ Return(p, c, "NotFound")
           \/ /\ o.present
              /\ IsSettled(o)
              /\ Return(p, c, "AlreadySettled")
           \/ /\ o.present
              /\ ~IsSettled(o)
              /\ ordAmt' = [ordAmt EXCEPT ![p] = o.amount]
              /\ Goto(p, c, "st_write", TRUE)
              /\ UNCHANGED cur
  /\ UNCHANGED <<impl, balances, orders, initial, applied>>

\* mutant of STWriteSample: the UpdateItem carries a condition on the status
\* read, and a failed condition is returned as AlreadySettled
STWriteSampleConditional(p) ==
  /\ impl = "sample"
  /\ pc[p] = "st_write"
  /\ \/ /\ Return(p, call[p], "StoreError")
        /\ UNCHANGED orders
     \/ /\ ~IsSettled(orders[call[p].order])
        /\ orders' = [orders EXCEPT ![call[p].order] = SetSettled(@)]
        /\ Return(p, call[p], "ok")
     \/ /\ IsSettled(orders[call[p].order])
        /\ Return(p, call[p], "AlreadySettled")
        /\ UNCHANGED orders
  /\ UNCHANGED <<impl, balances, initial, applied>>

\* sample: UpdateItem of the status, return nil
STWriteSample(p) ==
  /\ impl = "sample"
  /\ pc[p] = "st_write"
  /\ \/ /\ Return(p, call[p], "StoreError")
        /\ UNCHANGED orders
     \/ /\ orders' = [orders EXCEPT ![call[p].order] = SetSettled(@)]
        /\ Return(p, call[p], "ok")
  /\ UNCHANGED <<impl, balances, initial, applied>>

\* cmd: UpdateItem of the status, then on to UpdateBalance(svc, userID, -order.Amount)
STWriteCmd(p) ==
  /\ impl = "cmd"
  /\ pc[p] = "st_write"
  /\ \/ /\ Return(p, call[p], "StoreError")
        /\ UNCHANGED orders
     \/ /\ orders' = [orders EXCEPT ![call[p].order] = SetSettled(@)]
        /\ Goto(p, [call[p] EXCEPT !.dA = -ordAmt[p], !.dT = -ordAmt[p]], "ub_read", FALSE)
        /\ UNCHANGED <<cur, ordAmt>>
  /\ UNCHANGED <<impl, balances, initial, applied>>

\* ------------------------------------------------------------------ specification

Next ==
  \E p \in Callers :
    \/ AdjustSample(p)
    \/ AdjustCmd(p)
    \/ UBReadSample(p)
    \/ UBReadCmd(p)
    \/ UBWriteSample(p)
    \/ UBWriteCmd(p)
    \/ CreateSellOrder(p)
    \/ Settle(p)
    \/ STWriteSample(p)
    \/ STWriteCmd(p)

Spec == Init /\ [][Next]_vars

\* a caller that has invoked its operation takes its next step: it is blocked
\* only on the store call in progress
Proceed(p) ==
  \/ UBReadSample(p)
  \/ UBReadCmd(p)
  \/ UBWriteSample(p)
  \/ UBWriteCmd(p)
  \/ STWriteSample(p)
  \/ STWriteCmd(p)

\* every caller that is inside an operation eventually takes its next step
FairSpec == Init /\ [][Next]_vars /\ \A p \in Callers : WF_vars(Proceed(p))

\* ------------------------------------------------------------------ types

TypeOK ==
  /\ impl \in Impls
  /\ \A u \in Users : balances[u].present => balances[u].available \in Int /\ balances[u].total \in Int
  /\ \A p \in Callers : pc[p] \in {"idle", "ub_read", "ub_write", "st_write", "done"}

\* ------------------------------------------------------------------ claims

\* every operation invoked so far has returned
AllReturned == \A p \in Callers : pc[p] \in {"idle", "done"}

\* in this step caller p runs one round of UpdateBalance up to its UpdateItem
\* call (FetchBalance, the new values, the checks on them)
ReadRoundBy(p) ==
  \/ pc[p] = "idle" /\ pc'[p] # "idle" /\ call'[p].op = "Adjust"
  \/ pc[p] = "ub_read" /\ pc'[p] # "ub_read"

\* the stored Balance of u is the initial one plus the deltas of the
\* UpdateBalance calls that returned nil
SumOfSucceeded(u) ==
  /\ balances[u].available = initial[u].available + applied[u].available
  /\ balances[u].total = initial[u].total + applied[u].total

\* C1: (sample) once all calls have returned, the stored available and total of
\* every Balance equal the initial values plus the summed availableDelta and
\* totalDelta of exactly the UpdateBalance calls that returned success.
\* Violated: a delta below the sixth decimal is dropped by the "%f" formatting
\* of the written values while the call returns nil.
C1_NoLostUpdate ==
  (impl = "sample" /\ AllReturned) =>
    \A u \in Users : balances[u].present => SumOfSucceeded(u)

\* C1, for calls whose deltas "%f" represents exactly (multiples of 0.000001):
\* the sum of the succeeded deltas is what is stored, in every state
C1_NoLostUpdateExact ==
  (impl = "sample" /\ \A p \in Callers : call[p].dA % Resolution = 0 /\ call[p].dT % Resolution = 0) =>
    \A u \in Users : balances[u].present => SumOfSucceeded(u)

\* C2: (sample) a round of UpdateBalance whose FetchBalance succeeds and whose
\* new available or new total, computed from the Balance read, is negative ends
\* the call with NegativeBalance: no UpdateItem is attempted, no further round
\* is run, and the tables are unchanged.
C2_NegativeRejected ==
  [][\A p \in Callers :
       LET c == call'[p]
           b == balances[c.user]
       IN  ( /\ impl = "sample"
             /\ ReadRoundBy(p)
             /\ result'[p] # "StoreError"
             /\ b.present
             /\ (b.available + c.dA < 0 \/ b.total + c.dT < 0) )
           => /\ result'[p] = "NegativeBalance"
              /\ pc'[p] = "done"
              /\ balances' = balances
              /\ orders' = orders]_vars

\* C2 witness: an Adjust call was rejected because of its total alone
C2_Witness ==
  \E p \in Callers :
    /\ impl = "sample"
    /\ call[p].op = "Adjust"
    /\ result[p] = "NegativeBalance"
    /\ balances[call[p].user].available + call[p].dA >= 0
    /\ balances[call[p].user].total + call[p].dT < 0

\* C3: (sample) the stored available and total of every Balance are >= 0 in
\* every reachable state, under any interleaving of Adjust, CreateSellOrder and
\* Settle calls.
C3_NonNegative ==
  impl = "sample" =>
    \A u \in Users : balances[u].present => balances[u].available >= 0 /\ balances[u].total >= 0

\* C3 witness: of two concurrent debits of the same Balance one was applied and
\* brought a field to 0, the other was rejected
C3_Witness ==
  \E p, q \in Callers :
    /\ impl = "sample"
    /\ p # q
    /\ call[p].user = call[q].user
    /\ result[p] = "ok" /\ call[p].dA < 0
    /\ result[q] = "NegativeBalance"
    /\ balances[call[p].user].available = 0

\* C4: the single-amount UpdateBalance (cmd) is equivalent to the two-delta form
\* (sample) called with availableDelta = totalDelta = amount: whenever a
\* single-amount call has read a Balance and is about to write, the two-delta
\* form, having read the same Balance for the same amount, would also go on to
\* write, and its UpdateItem against the same store would end the round the
\* same way and leave the same record.
\* Violated: the single-amount form has no negative check and no condition.
C4_SingleAmountEquivalent ==
  \A p \in Callers :
    (impl = "cmd" /\ pc[p] = "ub_write") =>
      LET c == call[p]
          stored == balances[c.user]
      IN  /\ CheckCmd(cur[p], c.dA) = CheckSample(cur[p], c.dA, c.dA)
          /\ WriteCmd(stored, cur[p], c.dA) = WriteSample(stored, cur[p], c.dA, c.dA)

\* in this step caller p invokes Settle and runs it up to its status check
SettleBeginBy(p) == pc[p] = "idle" /\ pc'[p] # "idle" /\ call'[p].op = "Settle"

\* C5: Settle twice in sequence on a Pending order, no store call failing.  A
\* Settle that finds the order Pending goes on to write it, the write makes the
\* status Settled and changes nothing else, and the call returns success
\* (sample) or what its UpdateBalance returns (cmd: success when the userID
\* passed has a Balance, NotFound when it has none).  A Settle that finds the
\* order Settled returns AlreadySettled at once: no write to the order, no
\* change of any Balance.
C5_SettleTwice ==
  [][\A p \in Callers :
       LET o == call'[p].order
       IN  /\ ( SettleBeginBy(p) /\ result'[p] # "StoreError" /\ orders[o].present )
              => /\ orders' = orders
                 /\ balances' = balances
                 /\ IF orders[o].status = "Settled"
                    THEN result'[p] = "AlreadySettled" /\ pc'[p] = "done"
                    ELSE pc'[p] = "st_write"
           /\ ( pc[p] = "st_write" /\ pc'[p] # "st_write" /\ result'[p] # "StoreError" )
              => /\ orders'[o].status = "Settled"
                 /\ orders'[o].amount = orders[o].amount
                 /\ orders'[o].user_id = orders[o].user_id
                 /\ balances' = balances
                 /\ IF impl = "sample"
                    THEN result'[p] = "ok" /\ pc'[p] = "done"
                    ELSE pc'[p] = "ub_read"
           /\ ( /\ impl = "cmd" /\ call[p].op = "Settle" /\ result'[p] # "StoreError"
                /\ pc[p] \in {"ub_read", "ub_write"} /\ pc'[p] # pc[p] )
              => IF pc[p] = "ub_write"
                 THEN result'[p] = "ok" /\ pc'[p] = "done"
                 ELSE IF balances[call[p].user].present
                      THEN pc'[p] = "ub_write"
                      ELSE result'[p] = "NotFound" /\ pc'[p] = "done"]_vars

\* C5 witness: two Settle calls on the same order have returned, one with
\* success and one with AlreadySettled, and the order is Settled
C5_Witness ==
  \E p, q \in Callers :
    /\ p # q
    /\ call[p].op = "Settle" /\ call[q].op = "Settle"
    /\ call[p].order = call[q].order
    /\ result[p] = "ok"
    /\ result[q] = "AlreadySettled"
    /\ orders[call[p].order].status = "Settled"

\* in this step caller p invokes CreateSellOrder
CreateBeginBy(p) == pc[p] = "idle" /\ pc'[p] # "idle" /\ call'[p].op = "CreateSellOrder"

\* C6: CreateSellOrder with amount <= 0 fails with InvalidAmount and changes no
\* Order and no Balance, whatever the tables hold.
C6_InvalidAmountNoEffect ==
  [][\A p \in Callers :
       ( CreateBeginBy(p) /\ -call'[p].dA <= 0 )
       => /\ result'[p] = "InvalidAmount"
          /\ pc'[p] = "done"
          /\ orders' = orders
          /\ balances' = balances]_vars

\* C6 witness: one CreateSellOrder with amount 0 and one with a negative amount
\* were both rejected
C6_Witness ==
  \E p, q \in Callers :
    /\ call[p].op = "CreateSellOrder" /\ call[q].op = "CreateSellOrder"
    /\ call[p].dA = 0 /\ call[q].dA > 0
    /\ result[p] = "InvalidAmount" /\ result[q] = "InvalidAmount"

\* C7: no step changes the stored amount of an existing order.
\* Violated: CreateSellOrder puts the Order unconditionally, so a call that
\* reuses the orderID replaces the amount.
C7_AmountImmutable ==
  [][\A o \in OrderIDs :
       orders[o].present => orders'[o].present /\ orders'[o].amount = orders[o].amount]_vars

\* C8: the only change of an existing order's status is Pending -> Settled; a
\* Settled order is never Pending again.
\* Violated: CreateSellOrder on the orderID of a Settled order puts it back to
\* Pending.
C8_StatusOnlyForward ==
  [][\A o \in OrderIDs :
       orders[o].present
       => \/ orders'[o].status = orders[o].status
          \/ orders[o].status = "Pending" /\ orders'[o].status = "Settled"]_vars

\* C9: a CreateSellOrder(userID, orderID, amount) that returns success, no other
\* caller having taken a step since it was invoked, leaves the Order
\* {orderID, userID, amount, Pending} and both fields of userID's Balance
\* lower by exactly amount, and no other record changed.
\* Violated: an amount below the sixth decimal is accepted (it is > 0) and the
\* call returns nil, but "%f" writes the Balance back unchanged.
C9_CreateDebitsExactly ==
  [][\A p \in Callers :
       ( pc[p] = "ub_write" /\ call[p].op = "CreateSellOrder" /\ quiet[p] /\ result'[p] = "ok" )
       => LET c == call[p]
              a == -c.dA
          IN  /\ orders' = orders
              /\ orders[c.order] =
                   [user_id |-> c.user, amount |-> a, status |-> "Pending", present |-> TRUE]
              /\ balances'[c.user].available = balances[c.user].available - a
              /\ balances'[c.user].total = balances[c.user].total - a
              /\ \A u \in Users \ {c.user} : balances'[u] = balances[u]]_vars

\* C9, for amounts and a Balance "%f" represents exactly (multiples of 0.000001)
C9_CreateDebitsExact ==
  [][\A p \in Callers :
       ( /\ pc[p] = "ub_write" /\ call[p].op = "CreateSellOrder" /\ quiet[p]
         /\ result'[p] = "ok" /\ call[p].dA % Resolution = 0
         /\ balances[call[p].user].available % Resolution = 0
         /\ balances[call[p].user].total % Resolution = 0 )
       => LET c == call[p]
              a == -c.dA
          IN  /\ orders' = orders
              /\ orders[c.order] =
                   [user_id |-> c.user, amount |-> a, status |-> "Pending", present |-> TRUE]
              /\ balances'[c.user].available = balances[c.user].available - a
              /\ balances'[c.user].total = balances[c.user].total - a
              /\ \A u \in Users \ {c.user} : balances'[u] = balances[u]]_vars

\* C10: (cmd) a Settle(userID, orderID) that returns success, no other caller
\* having taken a step since it was invoked, lowers total of userID's Balance
\* by order.Amount and leaves available as it was.
\* Violated: Settle calls UpdateBalance(svc, userID, -order.Amount), which
\* lowers available as well.
C10_SettleDebitsTotalOnly ==
  [][\A p \in Callers :
       ( /\ impl = "cmd" /\ pc[p] = "ub_write" /\ call[p].op = "Settle"
         /\ quiet[p] /\ result'[p] = "ok" )
       => /\ balances'[call[p].user].available = balances[call[p].user].available
          /\ balances'[call[p].user].total = balances[call[p].user].total - ordAmt[p]]_vars

\* the provisioned Balances have no more than six decimals
Representable ==
  \A u \in Users :
    initial[u].present =>
      initial[u].available % Resolution = 0 /\ initial[u].total % Resolution = 0

\* C11: (sample) with every caller taking its steps (weak fairness), every
\* Adjust call eventually returns.
\* Violated: the condition of the write compares the stored values with the
\* "%f" text of the values read; for a stored value with more than six
\* decimals the two differ though no other caller wrote, and the loop spins.
C11_AdjustReturns ==
  (\A q \in Callers : [](result[q] # "StoreError")) =>
  \A p \in Callers :
    (impl = "sample" /\ call[p].op = "Adjust" /\ pc[p] \in {"ub_read", "ub_write"})
      ~> (pc[p] = "done")

\* C11, for provisioned Balances "%f" represents exactly: every Adjust call
\* eventually returns
C11_AdjustReturnsExact ==
  (\A q \in Callers : [](result[q] # "StoreError")) =>
  \A p \in Callers :
    (impl = "sample" /\ Representable /\ call[p].op = "Adjust" /\ pc[p] \in {"ub_read", "ub_write"})
      ~> (pc[p] = "done")

\* callers p and q are both about to write to the same Balance, from reads that
\* returned the same record
SameRead(p, q) ==
  /\ p # q
  /\ impl = "sample"
  /\ pc[p] = "ub_write" /\ pc[q] = "ub_write"
  /\ call[p].user = call[q].user
  /\ cur[p] = cur[q]

\* the store holds, for caller q's Balance, the values q's round read, as "%f"
\* writes them
StoredAsRead(bs, q) ==
  /\ bs[call[q].user].available = Fmt(cur[q].available)
  /\ bs[call[q].user].total = Fmt(cur[q].total)

C13_ConflictNotSurfaced ==
  [][\A p \in Callers :
       (impl = "sample" /\ call'[p].op = "Adjust") =>
         LET u == call'[p].user
         IN  /\ result'[p] \in {"none", "ok", "NegativeBalance", "NotFound", "StoreError"}
             /\ (result'[p] = "ok" /\ result[p] # "ok")
                => /\ pc[p] = "ub_write"
                   /\ StoredAsRead(balances, p)
                   /\ balances'[u].available = Fmt(cur[p].available + call[p].dA)
                   /\ balances'[u].total = Fmt(cur[p].total + call[p].dT)
             /\ (pc[p] = "ub_write" /\ pc'[p] # "ub_write" /\ result'[p] # "ok")
                => balances' = balances
             /\ (pc[p] = "ub_write" /\ pc'[p] = "ub_read")
                => result'[p] = "none" /\ ~StoredAsRead(balances, p)
             /\ (result'[p] \notin {"none", "ok"} /\ result[p] = "none")
                => pc'[p] = "done" /\ balances' = balances
             /\ (result'[p] = "none") => pc'[p] # "done"
             /\ (pc[p] = "done") => (pc'[p] = "done" /\ result'[p] = result[p])]_vars

\* C13 witness: an Adjust call met a failed condition and has nothing returned
\* (it is back at FetchBalance), the Adjust call whose write was applied
\* having returned success
C13_Witness ==
  \E p, q \in Callers :
    /\ impl = "sample" /\ Representable
    /\ call[p].op = "Adjust" /\ pc[p] = "ub_read" /\ result[p] = "none"
    /\ call[q].op = "Adjust" /\ pc[q] = "done" /\ result[q] = "ok"
    /\ balances[call[q].user] # initial[call[q].user]

\* in this step caller p's CreateSellOrder, whose PutItem of the Order succeeded,
\* returns the error of its UpdateBalance
CreateFailsAfterPut(p) ==
  /\ call[p].op = "CreateSellOrder"
  /\ pc[p] \in {"ub_read", "ub_write"}
  /\ pc'[p] = "done"
  /\ result'[p] \in {"NegativeBalance", "NotFound", "StoreError"}

\* C14: when CreateSellOrder has written its Order and its UpdateBalance fails,
\* the call returns the error and the failing step writes neither table (no
\* rollback); no step of a CreateSellOrder call other than its successful
\* return changes a Balance.  With no other caller having taken a step, the
\* Order is then stored as written, with status Pending, and every Balance is
\* the initial one.
C14_NoRollback ==
  [][\A p \in Callers :
       /\ CreateFailsAfterPut(p)
          => /\ balances' = balances
             /\ orders' = orders
             /\ quiet[p]
                => /\ orders'[call[p].order].present
                   /\ orders'[call[p].order].status = "Pending"
                   /\ orders'[call[p].order].user_id = call[p].user
                   /\ orders'[call[p].order].amount = -call[p].dA
             /\ (quiet[p] /\ \A q \in Callers \ {p} : pc[q] = "idle")
                => balances' = initial
       /\ (call'[p].op = "CreateSellOrder" /\ pc'[p] # pc[p] /\ result'[p] # "ok")
          => balances' = balances]_vars

\* C14 witness: a CreateSellOrder for more than the funds returned
\* NegativeBalance; its Order is stored Pending and the Balances are the
\* initial ones
C14_Witness ==
  \E p \in Callers :
    /\ call[p].op = "CreateSellOrder"
    /\ result[p] = "NegativeBalance"
    /\ orders[call[p].order].present
    /\ orders[call[p].order].status = "Pending"
    /\ orders[call[p].order].amount = -call[p].dA
    /\ initial[call[p].user].available + call[p].dA < 0
    /\ balances = initial

\* caller p's CreateSellOrder names an order that an earlier CreateSellOrder,
\* of caller q, created and debited, q having returned before p began
Recreates(p, q) ==
  /\ q # p
  /\ call[q].op = "CreateSellOrder" /\ pc[q] = "done" /\ result[q] = "ok"

\* C15: a CreateSellOrder called with the orderID of an order created before
\* puts its own record {userID, amount, Pending} in place of the stored one,
\* and on success its userID's Balance is debited by its amount, on top of the
\* earlier debit.
\* Violated: an amount below the sixth decimal is dropped by the "%f"
\* formatting of the written values, so the call succeeds without debiting.
C15_OverwriteAndDebit ==
  [][\A p, q \in Callers :
       /\ ( /\ Recreates(p, q)
            /\ pc[p] = "idle" /\ pc'[p] = "ub_read" /\ call'[p].op = "CreateSellOrder"
            /\ call'[p].order = call[q].order )
          => /\ orders[call'[p].order].present
             /\ orders'[call'[p].order].present
             /\ orders'[call'[p].order].user_id = call'[p].user
             /\ orders'[call'[p].order].amount = -call'[p].dA
             /\ orders'[call'[p].order].status = "Pending"
       /\ ( /\ Recreates(p, q)
            /\ call[p].op = "CreateSellOrder" /\ call[p].order = call[q].order
            /\ pc[p] = "ub_write" /\ quiet[p] /\ result'[p] = "ok" )
          => /\ balances'[call[p].user].available = balances[call[p].user].available + call[p].dA
             /\ balances'[call[p].user].total = balances[call[p].user].total + call[p].dT]_vars

\* C15, for amounts and Balances "%f" represents exactly
C15_OverwriteAndDebitExact ==
  [][\A p, q \in Callers :
       /\ ( /\ Recreates(p, q)
            /\ pc[p] = "idle" /\ pc'[p] = "ub_read" /\ call'[p].op = "CreateSellOrder"
            /\ call'[p].order = call[q].order )
          => /\ orders[call'[p].order].present
             /\ orders'[call'[p].order] =
                  [user_id |-> call'[p].user, amount |-> -call'[p].dA,
                   status |-> "Pending", present |-> TRUE]
       /\ ( /\ Recreates(p, q)
            /\ call[p].op = "CreateSellOrder" /\ call[p].order = call[q].order
            /\ pc[p] = "ub_write" /\ quiet[p] /\ result'[p] = "ok"
            /\ call[p].dA % Resolution = 0
            /\ balances[call[p].user].available % Resolution = 0
            /\ balances[call[p].user].total % Resolution = 0 )
          => /\ balances'[call[p].user].available = balances[call[p].user].available + call[p].dA
             /\ balances'[call[p].user].total = balances[call[p].user].total + call[p].dT]_vars

\* C16: two Settle calls that have both passed the status check of the same
\* order both write.  The write of one leaves the other where it is, and a
\* Settle past its check writes status Settled whatever the status has become,
\* never returning AlreadySettled: it returns success (sample) or goes on to
\* UpdateBalance (cmd).
C16_BothSettlesWrite ==
  [][\A p \in Callers :
       LET o == call[p].order
       IN  ( /\ call[p].op = "Settle" /\ pc[p] = "st_write" /\ pc'[p] # "st_write"
             /\ result'[p] # "StoreError" )
           => /\ orders'[o].status = "Settled"
              /\ result'[p] # "AlreadySettled"
              /\ IF impl = "sample"
                 THEN result'[p] = "ok" /\ pc'[p] = "done"
                 ELSE pc'[p] = "ub_read"
              /\ \A q \in Callers \ {p} : pc'[q] = pc[q] /\ result'[q] = result[q]]_vars

\* C16 witness: two Settle calls on the same order have both returned success
C16_Witness ==
  \E p, q \in Callers :
    /\ p # q
    /\ call[p].op = "Settle" /\ call[q].op = "Settle"
    /\ call[p].order = call[q].order
    /\ result[p] = "ok" /\ result[q] = "ok"
    /\ orders[call[p].order].status = "Settled"

\* C17: an Adjust for a userID without a Balance record returns NotFound (or
\* the error of the read) in its first step and writes nothing; after every
\* step of any operation the users having a Balance record are the ones
\* provisioned initially.
C17_NoBalanceCreated ==
  [][/\ \A p \in Callers :
          ( /\ pc[p] = "idle" /\ call'[p].op = "Adjust"
            /\ ~balances[call'[p].user].present )
          => /\ pc'[p] = "done"
             /\ result'[p] \in {"NotFound", "StoreError"}
             /\ balances' = balances
     /\ \A u \in Users : balances'[u].present = initial[u].present]_vars

\* C17 witness: an Adjust for a user without a Balance record returned NotFound
C17_Witness ==
  \E p \in Callers :
    /\ call[p].op = "Adjust"
    /\ result[p] = "NotFound"
    /\ ~balances[call[p].user].present
    /\ ~initial[call[p].user].present

\* the only calls made so far are Settle calls naming the owner of their order
OnlyOwnerSettles ==
  \A p \in Callers :
    \/ call[p].op = "none"
    \/ /\ call[p].op = "Settle"
       /\ orders[call[p].order].present
       /\ call[p].user = orders[call[p].order].user_id

\* C18: (cmd) when the only calls are Settle calls on a provisioned order, each
\* naming its owner, and the provisioned Balances have at most six decimals,
\* every Balance is the initial one or the initial one less
\* the amount of an order of that user: the amount is debited at most once.
\* Violated: two Settle calls that both read the order Pending both go on to
\* UpdateBalance(svc, userID, -order.Amount), and the amount is debited twice.
C18_SettleDebitsOnce ==
  (impl = "cmd" /\ Representable /\ OnlyOwnerSettles) =>
    \A u \in Users :
      balances[u].present =>
        \/ balances[u] = initial[u]
        \/ \E o \in OrderIDs :
             /\ orders[o].present /\ orders[o].user_id = u
             /\ balances[u].available = initial[u].available - orders[o].amount
             /\ balances[u].total = initial[u].total - orders[o].amount

\* C19: (cmd) the UpdateBalance of a Settle call changes no Balance but that of
\* the user_id stored in the order.
\* Violated: the Balance written is that of the userID argument, which need
\* not be the order's user_id.
C19_SettleOwnerOnly ==
  [][\A p \in Callers :
       ( /\ impl = "cmd" /\ call[p].op = "Settle"
         /\ pc[p] = "ub_write" /\ pc'[p] # "ub_write" )
       => \A u \in Users :
            u # orders[call[p].order].user_id => balances'[u] = balances[u]]_vars

\* the only calls made so far are CreateSellOrder and Settle calls
OnlyOrderWorkflow ==
  \A p \in Callers : call[p].op \in {"none", "CreateSellOrder", "Settle"}

\* total - available of u's Balance is what it was initially
DifferenceKept(u) ==
  balances[u].total - balances[u].available = initial[u].total - initial[u].available

\* C20: when the only calls are CreateSellOrder and Settle calls, total -
\* available of every stored Balance is the same in every reachable state, in
\* both implementations.
\* Violated: new available and new total are each rounded to six decimals by
\* "%f" when written, and for a stored value with more than six decimals the
\* two roundings differ.
C20_DifferenceConstant ==
  OnlyOrderWorkflow =>
    \A u \in Users : balances[u].present => DifferenceKept(u)

\* C20, for provisioned Balances "%f" represents exactly
C20_DifferenceConstantExact ==
  (OnlyOrderWorkflow /\ Representable) =>
    \A u \in Users : balances[u].present => DifferenceKept(u)

====
